---- MODULE Spec2Model ----
(***************************************************************************)
(* zhixue-calendar: a Cloudflare Worker that serves a cached ICS calendar  *)
(* from a KV namespace and regenerates it twice a day.  The model covers   *)
(* src/src/index.ts: the freshness oracle (getLastScheduledTime,           *)
(* isCacheInValidPeriod), the read path (fetch / getCachedCalendar), the   *)
(* regeneration (updateCalendarCache / fetchHomeworkFromZhixue) and the    *)
(* scheduled handler.                                                      *)
(*                                                                         *)
(* A JavaScript time value t (milliseconds since the epoch) is kept as the *)
(* pair Day(t), TimeWithinDay(t) of ECMA-262, because t itself does not    *)
(* fit the model checker's integers: [nan, day, ms].                       *)
(***************************************************************************)
EXTENDS Integers, Sequences, FiniteSets, TLC

(***************************************************************************)
(* ECMA-262 date arithmetic, as used by the Date methods the code calls.   *)
(***************************************************************************)
msPerMinute == 60 * 1000
msPerHour == 60 * msPerMinute
msPerDay == 24 * msPerHour

InvalidDate == [nan |-> TRUE, day |-> 0, ms |-> 0]

TimeValue(d, m) == [nan |-> FALSE, day |-> d, ms |-> m]

\* MakeDate(day, time) = day * msPerDay + time, renormalised to (Day, TimeWithinDay).
MakeDate(d, time) == TimeValue(d + (time \div msPerDay), time % msPerDay)

MakeTime(h, mi, s, milli) == h * msPerHour + mi * msPerMinute + s * 1000 + milli

DaysInYear(y) ==
    IF y % 4 # 0 THEN 365
    ELSE IF y % 100 # 0 THEN 366
    ELSE IF y % 400 # 0 THEN 365
    ELSE 366

DayFromYear(y) ==
    365 * (y - 1970) + ((y - 1969) \div 4) - ((y - 1901) \div 100) + ((y - 1601) \div 400)

\* The largest y with DayFromYear(y) <= d.  d \div 365 overshoots by less than a
\* year for the next four centuries, so the year is the estimate or the one before.
YearFromDay(d) ==
    LET est == 1970 + (d \div 365)
    IN  IF DayFromYear(est) <= d THEN est ELSE est - 1

InLeapYear(d) == IF DaysInYear(YearFromDay(d)) = 366 THEN 1 ELSE 0

DayWithinYear(d) == d - DayFromYear(YearFromDay(d))

\* Days before month m (0 = January) in a year with leap = 0 or 1.
DaysBeforeMonth(m, leap) ==
    CASE m = 0 -> 0
      [] m = 1 -> 31
      [] m = 2 -> 59 + leap
      [] m = 3 -> 90 + leap
      [] m = 4 -> 120 + leap
      [] m = 5 -> 151 + leap
      [] m = 6 -> 181 + leap
      [] m = 7 -> 212 + leap
      [] m = 8 -> 243 + leap
      [] m = 9 -> 273 + leap
      [] m = 10 -> 304 + leap
      [] m = 11 -> 334 + leap
      [] OTHER -> 365 + leap

MonthFromDay(d) ==
    LET dwy == DayWithinYear(d)
        leap == InLeapYear(d)
    IN  CHOOSE m \in 0..11 :
            DaysBeforeMonth(m, leap) <= dwy /\ dwy < DaysBeforeMonth(m + 1, leap)

DateFromDay(d) == DayWithinYear(d) - DaysBeforeMonth(MonthFromDay(d), InLeapYear(d)) + 1

\* MakeDay(year, month, date): the day number of the given date; month and date
\* may lie outside their ranges (date 0 is the last day of the previous month).
MakeDay(year, month, date) ==
    LET ym == year + (month \div 12)
        mn == month % 12
        leap == IF DaysInYear(ym) = 366 THEN 1 ELSE 0
    IN  DayFromYear(ym) + DaysBeforeMonth(mn, leap) + date - 1

\* Date.prototype.getUTCHours / getUTCDate
getUTCHours(t) == t.ms \div msPerHour

getUTCDate(t) == DateFromDay(t.day)

\* Date.prototype.setUTCHours(hour, min, sec, ms)
setUTCHours(t, h, mi, s, milli) == MakeDate(t.day, MakeTime(h, mi, s, milli))

\* Date.prototype.setUTCDate(date)
setUTCDate(t, date) ==
    MakeDate(MakeDay(YearFromDay(t.day), MonthFromDay(t.day), date), t.ms)

\* Date.prototype.toISOString: "YYYY-MM-DDTHH:mm:ss.sssZ", kept as its seven fields.
toISOString(t) ==
    << YearFromDay(t.day), MonthFromDay(t.day) + 1, DateFromDay(t.day),
       t.ms \div msPerHour, (t.ms % msPerHour) \div msPerMinute,
       (t.ms % msPerMinute) \div 1000, t.ms % 1000 >>

\* new Date(string): a well-formed ISO string gives its time value, anything
\* else (a missing field, a string that is no date) gives Invalid Date.
DateParse(s) ==
    IF Len(s) = 7 /\ s[2] \in 1..12 /\ s[3] \in 1..31 /\ s[4] \in 0..23
       /\ s[5] \in 0..59 /\ s[6] \in 0..59 /\ s[7] \in 0..999
    THEN MakeDate(MakeDay(s[1], s[2] - 1, s[3]), MakeTime(s[4], s[5], s[6], s[7]))
    ELSE InvalidDate

\* a >= b on Dates: the comparison of their time values; false when either is NaN.
DateGE(a, b) ==
    /\ ~a.nan
    /\ ~b.nan
    /\ (a.day > b.day \/ (a.day = b.day /\ a.ms >= b.ms))

(***************************************************************************)
(* The freshness oracle.                                                   *)
(***************************************************************************)
\* Mutant of SCHEDULED_HOURS_UTC: one scheduled hour a day.
SCHEDULED_HOURS_UTC_Daily == <<22>>

SCHEDULED_HOURS_UTC == <<22, 10>>

\* seq with its i-th element removed
RemoveAt(seq, i) == [j \in 1..(Len(seq) - 1) |-> IF j < i THEN seq[j] ELSE seq[j + 1]]

\* [...hours].sort((a, b) => b - a): descending order
RECURSIVE SortDescending(_)
SortDescending(seq) ==
    IF Len(seq) = 0 THEN << >>
    ELSE LET i == CHOOSE k \in 1..Len(seq) : \A j \in 1..Len(seq) : seq[k] >= seq[j]
         IN  <<seq[i]>> \o SortDescending(RemoveAt(seq, i))

\* The for loop of getLastScheduledTime from index i on, with the fall-through
\* to yesterday's last scheduled hour.
RECURSIVE ScheduledFrom(_, _, _)
ScheduledFrom(now, sortedHours, i) ==
    IF i > Len(sortedHours)
    THEN setUTCHours(setUTCDate(now, getUTCDate(now) - 1), sortedHours[1], 0, 0, 0)
    ELSE IF getUTCHours(now) >= sortedHours[i]
         THEN setUTCHours(now, sortedHours[i], 0, 0, 0)
         ELSE ScheduledFrom(now, sortedHours, i + 1)

\* Mutants of getLastScheduledTime: the previous-day step forgotten, hour > hour
\* for hour >= hour, the hours left in ascending order.
RECURSIVE ScheduledFrom_NoRollback(_, _, _)
ScheduledFrom_NoRollback(now, sortedHours, i) ==
    IF i > Len(sortedHours)
    THEN setUTCHours(now, sortedHours[1], 0, 0, 0)
    ELSE IF getUTCHours(now) >= sortedHours[i]
         THEN setUTCHours(now, sortedHours[i], 0, 0, 0)
         ELSE ScheduledFrom_NoRollback(now, sortedHours, i + 1)

getLastScheduledTime_NoRollback(now) ==
    ScheduledFrom_NoRollback(now, SortDescending(SCHEDULED_HOURS_UTC), 1)

RECURSIVE ScheduledFrom_Strict(_, _, _)
ScheduledFrom_Strict(now, sortedHours, i) ==
    IF i > Len(sortedHours)
    THEN setUTCHours(setUTCDate(now, getUTCDate(now) - 1), sortedHours[1], 0, 0, 0)
    ELSE IF getUTCHours(now) > sortedHours[i]
         THEN setUTCHours(now, sortedHours[i], 0, 0, 0)
         ELSE ScheduledFrom_Strict(now, sortedHours, i + 1)

getLastScheduledTime_Strict(now) ==
    ScheduledFrom_Strict(now, SortDescending(SCHEDULED_HOURS_UTC), 1)

getLastScheduledTime_Ascending(now) ==
    LET d == SortDescending(SCHEDULED_HOURS_UTC)
    IN  ScheduledFrom(now, [j \in 1..Len(d) |-> d[Len(d) + 1 - j]], 1)

getLastScheduledTime(now) == ScheduledFrom(now, SortDescending(SCHEDULED_HOURS_UTC), 1)

\* Mutant of isCacheInValidPeriod: > for >=.
isCacheInValidPeriod_Strict(lastUpdated, now) ==
    DateGE(lastUpdated, getLastScheduledTime(now)) /\ lastUpdated # getLastScheduledTime(now)

isCacheInValidPeriod(lastUpdated, now) == DateGE(lastUpdated, getLastScheduledTime(now))

(***************************************************************************)
(* Stored values.  A value that may be null is a tuple of length 0 (null)  *)
(* or 1.  A text is the sequence of its lines, "" the empty sequence.      *)
(***************************************************************************)
NULL == << >>

Some(v) == <<v>>

CACHE_KEY == "zhixue-calendar-ics"
CACHE_META_KEY == "zhixue-calendar-meta"
DEPLOYMENT_KEY == "zhixue-calendar-deployment"
DEPLOYMENT_VERSION == "2026-02-06"

Keys == {CACHE_KEY, CACHE_META_KEY, DEPLOYMENT_KEY}

\* JSON.stringify({lastUpdated, homeworkCount}): the text of a JSON object.
JSONstringify(lastUpdated, homeworkCount) ==
    [shape |-> "object", lastUpdated |-> lastUpdated, homeworkCount |-> homeworkCount]

\* Other texts a metadata key can hold: "", text that is no JSON, the JSON text
\* null, an object without lastUpdated, an object whose lastUpdated is no date.
EmptyText == [shape |-> "empty", lastUpdated |-> << >>, homeworkCount |-> 0]
GarbageText == [shape |-> "garbage", lastUpdated |-> << >>, homeworkCount |-> 0]
JsonNullText == [shape |-> "null", lastUpdated |-> << >>, homeworkCount |-> 0]
NoFieldText == [shape |-> "object", lastUpdated |-> << >>, homeworkCount |-> 5]
BadDateText == [shape |-> "object", lastUpdated |-> <<0>>, homeworkCount |-> 5]

\* JSON.parse(text): throws on text that is no JSON, else the parsed value.
JSONparse(text) ==
    [threw |-> text.shape \in {"empty", "garbage"},
     isNull |-> text.shape = "null",
     lastUpdated |-> text.lastUpdated]

\* JavaScript truthiness of a string | null: neither null nor "".
TruthyText(o) == o # NULL /\ o[1] # << >>

TruthyMeta(o) == o # NULL /\ o[1].shape # "empty"

\* generateCalendar: the calendar header, one event per homework, the footer.
\* The text is never empty, whatever the list.
generateCalendar(homeworkList) ==
    <<"BEGIN:VCALENDAR", "METHOD:PUBLISH">> \o homeworkList \o <<"END:VCALENDAR">>

(***************************************************************************)
(* getCachedCalendar after its three reads: the value it returns, and      *)
(* whether it throws.  JSON.parse and the read of meta.lastUpdated are     *)
(* inside the try block, so nothing escapes.                               *)
(***************************************************************************)
\* Mutant of MetaIsFresh: the negation of line 242 dropped.
MetaIsFresh_Negated(metaString, now) ==
    LET meta == JSONparse(metaString[1])
    IN  /\ ~meta.threw
        /\ ~meta.isNull
        /\ ~isCacheInValidPeriod(DateParse(meta.lastUpdated), now)

\* The try block of getCachedCalendar: the metadata parses, is an object and
\* its lastUpdated is in the valid period.
MetaIsFresh(metaString, now) ==
    LET meta == JSONparse(metaString[1])
    IN  /\ ~meta.threw
        /\ ~meta.isNull
        /\ isCacheInValidPeriod(DateParse(meta.lastUpdated), now)

\* Mutants of getCachedCalendar: the deployment version not compared; the
\* parse of the metadata outside the try block.
getCachedCalendar_NoMarker(icsContent, metaString, storedDeploymentVersion, now) ==
    IF ~TruthyText(icsContent)
    THEN [threw |-> FALSE, value |-> NULL]
    ELSE IF TruthyMeta(metaString)
         THEN IF MetaIsFresh(metaString, now)
              THEN [threw |-> FALSE, value |-> icsContent]
              ELSE [threw |-> FALSE, value |-> NULL]
         ELSE [threw |-> FALSE, value |-> NULL]

getCachedCalendar_NoTry(icsContent, metaString, storedDeploymentVersion, now) ==
    IF storedDeploymentVersion # Some(DEPLOYMENT_VERSION) \/ ~TruthyText(icsContent)
    THEN [threw |-> FALSE, value |-> NULL]
    ELSE IF TruthyMeta(metaString)
         THEN IF JSONparse(metaString[1]).threw \/ JSONparse(metaString[1]).isNull
              THEN [threw |-> TRUE, value |-> NULL]
              ELSE IF MetaIsFresh(metaString, now)
                   THEN [threw |-> FALSE, value |-> icsContent]
                   ELSE [threw |-> FALSE, value |-> NULL]
         ELSE [threw |-> FALSE, value |-> NULL]

getCachedCalendar(icsContent, metaString, storedDeploymentVersion, now) ==
    IF storedDeploymentVersion # Some(DEPLOYMENT_VERSION) \/ ~TruthyText(icsContent)
    THEN [threw |-> FALSE, value |-> NULL]
    ELSE IF TruthyMeta(metaString)
         THEN IF MetaIsFresh(metaString, now)
              THEN [threw |-> FALSE, value |-> icsContent]
              ELSE [threw |-> FALSE, value |-> NULL]
         ELSE [threw |-> FALSE, value |-> NULL]

(***************************************************************************)
(* Bounds of the model.                                                    *)
(***************************************************************************)
\* invocations (HTTP requests and cron triggers) in one behaviour
MaxInvocations == 2
\* the oracle's inputs span this many days after each anchor day
MaxDayOffset == 1

(***************************************************************************)
(* The clock: the instants at which the model reads it, just before and    *)
(* exactly at a scheduled hour, from 2025-12-31 into the first day of a    *)
(* year.                                                                   *)
(***************************************************************************)
StartDay == MakeDay(2025, 11, 31)

Instants ==
    << TimeValue(StartDay, MakeTime(21, 59, 59, 999)),
       TimeValue(StartDay, MakeTime(22, 0, 0, 0)),
       TimeValue(StartDay + 1, MakeTime(9, 59, 59, 999)) >>

Clock(k) == Instants[k + 1]

VARIABLES
    kv,        \* CALENDAR_CACHE: key -> value | null
    writer,    \* history: the invocation whose put wrote the key's value (0: none)
               \* and the time at which it issued the put
    tick,      \* the clock is at Clock(tick)
    nextId,    \* the next invocation to start
    proc,      \* isolate -> the local state of the invocation it runs or ran last
    lastCron,  \* history: how the last completed scheduled invocation ended
    failed,    \* history: the invocations one of whose puts was rejected
    oPc, oNow, oLastUpdated, oLast, oFresh   \* the oracle called on its own

vars == <<kv, writer, tick, nextId, proc, lastCron, failed, oPc, oNow, oLastUpdated, oLast, oFresh>>

sysVars == <<kv, writer, tick, nextId, proc, lastCron, failed>>

oracleVars == <<oPc, oNow, oLastUpdated, oLast, oFresh>>

\* The isolates that can run invocations side by side.  An isolate keeps the
\* record of the invocation it ran last until time passes or the next starts.
Isolates == {1, 2}

Now == Clock(tick)

\* The namespace holding ics, meta and marker under the three keys.
Store(ics, meta, marker) ==
    [k \in Keys |-> IF k = CACHE_KEY THEN ics ELSE IF k = CACHE_META_KEY THEN meta ELSE marker]

EmptyStore == Store(NULL, NULL, NULL)

NoWriter == [id |-> 0, at |-> InvalidDate]

\* The headers of a Response built without a headers option: the runtime
\* gives a string body the type text/plain.
HeaderNames ==
    {"Content-Type", "Cache-Control", "Pragma", "Expires", "Access-Control-Allow-Origin",
     "Access-Control-Allow-Methods", "Access-Control-Allow-Headers", "Vary"}

DefaultHeaders ==
    [h \in HeaderNames |-> IF h = "Content-Type" THEN "text/plain;charset=UTF-8" ELSE ""]

NoHeaders == [h \in HeaderNames |-> ""]

\* The headers of the 200 response, but for the ETag hashed from the body.
CalendarHeaders ==
    [h \in HeaderNames |->
        CASE h = "Content-Type" -> "text/calendar; charset=utf-8"
          [] h = "Cache-Control" -> "no-cache, no-store, must-revalidate"
          [] h = "Pragma" -> "no-cache"
          [] h = "Expires" -> "0"
          [] h = "Access-Control-Allow-Origin" -> "*"
          [] h = "Access-Control-Allow-Methods" -> "GET, HEAD, OPTIONS"
          [] h = "Access-Control-Allow-Headers" -> "Content-Type"
          [] h = "Vary" -> "Accept-Encoding"]

\* The local state of an invocation.  before and after are history: the store
\* and the failed saves when it started; so are tries and saves, the calls of
\* fetchHomeworkFromZhixue and of the three puts it has made.
Idle ==
    [id |-> 0, kind |-> "none", pc |-> "idle", cookie |-> "",
     before |-> EmptyStore, after |-> {},
     read |-> {}, got |-> [k \in Keys |-> NULL], from |-> [k \in Keys |-> NoWriter],
     evalAt |-> InvalidDate, hit |-> NULL,
     tries |-> 0, stat |-> 0, list |-> << >>,
     saves |-> 0, savedAt |-> InvalidDate,
     puts |-> [k \in Keys |-> "none"],
     status |-> 0, headers |-> NoHeaders, body |-> << >>, log |-> "none", error |-> "none"]

(***************************************************************************)
(* How a handler ends.                                                     *)
(***************************************************************************)
\* Mutant of Succeed: the 200 response is built without its headers.
Succeed_PlainText(p, icsContent) ==
    IF p.kind = "fetch"
    THEN [p EXCEPT !.pc = "done", !.status = 200, !.headers = DefaultHeaders,
                   !.body = icsContent]
    ELSE [p EXCEPT !.pc = "done", !.log = "updated"]

\* fetch: the 200 response of lines 279-297; scheduled: the log of line 316.
Succeed(p, icsContent) ==
    IF p.kind = "fetch"
    THEN [p EXCEPT !.pc = "done", !.status = 200, !.headers = CalendarHeaders,
                   !.body = icsContent]
    ELSE [p EXCEPT !.pc = "done", !.log = "updated"]

\* Mutant of Fail: the catch block of fetch answers 200 with the artifact the
\* store held when the request arrived.
Fail_ServeStale(p, why, message) ==
    IF p.kind = "fetch"
    THEN [p EXCEPT !.pc = "done", !.status = 200, !.error = why,
                   !.headers = CalendarHeaders,
                   !.body = IF p.before[CACHE_KEY] = NULL THEN << >> ELSE p.before[CACHE_KEY][1]]
    ELSE [p EXCEPT !.pc = "done", !.log = "error", !.error = why]

\* Mutant of Fail: scheduled has no catch block, the error leaves the handler
\* unlogged.
Fail_Uncaught(p, why, message) ==
    IF p.kind = "fetch"
    THEN [p EXCEPT !.pc = "done", !.status = 500, !.error = why,
                   !.headers = DefaultHeaders,
                   !.body = <<"Internal Error: ", message>>]
    ELSE [p EXCEPT !.pc = "done", !.error = why]

\* The catch block of the handler: fetch answers 500 with the message,
\* scheduled logs it.
Fail(p, why, message) ==
    IF p.kind = "fetch"
    THEN [p EXCEPT !.pc = "done", !.status = 500, !.error = why,
                   !.headers = DefaultHeaders,
                   !.body = <<"Internal Error: ", message>>]
    ELSE [p EXCEPT !.pc = "done", !.log = "error", !.error = why]

\* The guard on the credential that opens both handlers.
MissingCookie(p) ==
    IF p.kind = "fetch"
    THEN [p EXCEPT !.pc = "done", !.status = 500, !.error = "config",
                   !.headers = DefaultHeaders,
                   !.body = <<"Error: ZHIXUE_COOKIE secret is not set.">>]
    ELSE [p EXCEPT !.pc = "done", !.log = "error", !.error = "config"]

\* The invocation on isolate i is running or has puts in flight.
InFlight(i) ==
    \/ proc[i].pc \in {"reading", "fetching", "saving"}
    \/ \E k \in Keys : proc[i].puts[k] = "pending"

\* How the last completed scheduled invocation ended, and which it was.
CronOutcome(p) ==
    IF p.kind = "scheduled" /\ p.pc = "done" THEN [id |-> p.id, log |-> p.log] ELSE lastCron

(***************************************************************************)
(* The handlers, one action per step between two awaits.                   *)
(***************************************************************************)
\* The records of the invocations that are over are dropped: nothing of an
\* invocation outlives it but what it put into the store.
Running == [j \in Isolates |-> IF InFlight(j) THEN proc[j] ELSE Idle]

\* Invocation nextId starts on isolate i, the lowest one that is free.
Begin(i, p) ==
    /\ nextId <= MaxInvocations
    /\ ~InFlight(i)
    /\ \A j \in Isolates : j < i => InFlight(j)
    /\ proc' = [Running EXCEPT ![i] = p]
    /\ nextId' = nextId + 1

\* updateCalendarCache is called: fetchHomeworkFromZhixue starts with its
\* first remote request.
CallUpdate(p) == [p EXCEPT !.pc = "fetching", !.tries = @ + 1]

\* Mutant of StartFetch: the credential is not checked before the reads.
StartFetch_NoGuard(i, cookie) ==
    /\ LET p == [Idle EXCEPT !.id = nextId, !.kind = "fetch", !.cookie = cookie,
                              !.before = kv, !.after = failed]
       IN  Begin(i, [p EXCEPT !.pc = "reading"])
    /\ UNCHANGED <<kv, writer, tick, lastCron, failed>>

\* An HTTP request arrives: fetch up to its call of getCachedCalendar, which
\* issues the three reads.
StartFetch(i, cookie) ==
    /\ LET p == [Idle EXCEPT !.id = nextId, !.kind = "fetch", !.cookie = cookie,
                              !.before = kv, !.after = failed]
       IN  Begin(i, IF cookie = "" THEN MissingCookie(p) ELSE [p EXCEPT !.pc = "reading"])
    /\ UNCHANGED <<kv, writer, tick, lastCron, failed>>

\* Mutant of StartScheduled: the refresh is skipped when the read path would
\* serve the stored generation.
StartScheduled_IfStale(i, cookie) ==
    /\ LET p == [Idle EXCEPT !.id = nextId, !.kind = "scheduled", !.cookie = cookie,
                              !.before = kv, !.after = failed]
           c == getCachedCalendar(kv[CACHE_KEY], kv[CACHE_META_KEY], kv[DEPLOYMENT_KEY], Now)
           q == IF cookie = "" THEN MissingCookie(p)
                ELSE IF c.value # NULL THEN Succeed(p, c.value[1])
                ELSE CallUpdate(p)
       IN  /\ Begin(i, q)
           /\ lastCron' = CronOutcome(q)
    /\ UNCHANGED <<kv, writer, tick, failed>>

\* The runtime invokes the scheduled handler (a cron trigger, or a test of
\* one): scheduled up to the first remote request of
\* updateCalendarCache.
StartScheduled(i, cookie) ==
    /\ LET p == [Idle EXCEPT !.id = nextId, !.kind = "scheduled", !.cookie = cookie,
                              !.before = kv, !.after = failed]
           q == IF cookie = "" THEN MissingCookie(p) ELSE CallUpdate(p)
       IN  /\ Begin(i, q)
           /\ lastCron' = CronOutcome(q)
    /\ UNCHANGED <<kv, writer, tick, failed>>

\* The continuation of getCachedCalendar and of fetch once the three reads have
\* resolved: serve the cached text, or go on to updateCalendarCache.
AfterReads(p, now) ==
    LET r == getCachedCalendar(p.got[CACHE_KEY], p.got[CACHE_META_KEY],
                               p.got[DEPLOYMENT_KEY], now)
        q == [p EXCEPT !.evalAt = now, !.hit = r.value]
    IN  IF r.threw THEN Fail(q, "internal", "TypeError")
        ELSE IF TruthyText(r.value) THEN Succeed(q, r.value[1])
        ELSE CallUpdate(q)

\* One of the three CALENDAR_CACHE.get calls resolves.
Get(i, k) ==
    /\ proc[i].pc = "reading"
    /\ k \notin proc[i].read
    /\ LET p == [proc[i] EXCEPT !.read = @ \cup {k}, !.got[k] = kv[k], !.from[k] = writer[k]]
       IN  proc' = [proc EXCEPT ![i] = IF p.read = Keys THEN AfterReads(p, Now) ELSE p]
    /\ UNCHANGED <<kv, writer, tick, nextId, lastCron, failed>>

\* One of the three CALENDAR_CACHE.get calls rejects: Promise.all rejects,
\* getCachedCalendar throws and the catch block of fetch answers.
GetFail(i, k) ==
    /\ proc[i].pc = "reading"
    /\ k \notin proc[i].read
    /\ proc' = [proc EXCEPT ![i] = Fail(proc[i], "read", "KV GET failed")]
    /\ UNCHANGED <<kv, writer, tick, nextId, lastCron, failed>>

\* The value updateCalendarCache puts under key k: the generated text, the
\* metadata stamped with the time of the call, the deployment version.
\* Mutant of PutValue: lastUpdated is the epoch, not the time of the save.
PutValue_Epoch(p, k) ==
    IF k = CACHE_KEY THEN generateCalendar(p.list)
    ELSE IF k = CACHE_META_KEY
         THEN JSONstringify(toISOString(TimeValue(0, 0)), Len(p.list))
    ELSE DEPLOYMENT_VERSION

\* Mutant of PutValue: the metadata written without its lastUpdated.
PutValue_NoTimestamp(p, k) ==
    IF k = CACHE_KEY THEN generateCalendar(p.list)
    ELSE IF k = CACHE_META_KEY THEN JSONstringify(<< >>, Len(p.list))
    ELSE DEPLOYMENT_VERSION

PutValue(p, k) ==
    IF k = CACHE_KEY THEN generateCalendar(p.list)
    ELSE IF k = CACHE_META_KEY THEN JSONstringify(toISOString(p.savedAt), Len(p.list))
    ELSE DEPLOYMENT_VERSION

\* updateCalendarCache once fetchHomeworkFromZhixue has returned: the three
\* puts are issued together.
IssuePuts(p, now) ==
    [p EXCEPT !.pc = "saving", !.saves = @ + 1, !.savedAt = now,
              !.puts = [k \in Keys |-> "pending"]]

\* Mutant of RemoteOk: the puts are issued after the first remote request.
RemoteOk_SaveEarly(i, list) ==
    /\ proc[i].pc = "fetching"
    /\ LET p == [proc[i] EXCEPT !.stat = @ + 1,
                                !.list = @ \o (IF list = NULL THEN << >> ELSE list[1])]
       IN  proc' = [proc EXCEPT ![i] = IssuePuts(p, Now)]
    /\ UNCHANGED <<kv, writer, tick, nextId, lastCron, failed>>

\* A remote request of fetchHomeworkFromZhixue answers ok with code 200 and
\* result.list = list (null stands for a missing list).
RemoteOk(i, list) ==
    /\ proc[i].pc = "fetching"
    /\ LET p == [proc[i] EXCEPT !.stat = @ + 1,
                                !.list = @ \o (IF list = NULL THEN << >> ELSE list[1])]
       IN  proc' = [proc EXCEPT ![i] = IF p.stat < 2 THEN p ELSE IssuePuts(p, Now)]
    /\ UNCHANGED <<kv, writer, tick, nextId, lastCron, failed>>

\* Mutant of RemoteFail: fetchHomeworkFromZhixue is called once more after its
\* first failure.
RemoteFail_Retry(i, message) ==
    /\ proc[i].pc = "fetching"
    /\ LET q == IF proc[i].tries < 2
                THEN CallUpdate([proc[i] EXCEPT !.stat = 0, !.list = << >>])
                ELSE Fail(proc[i], "upstream", message)
       IN  /\ proc' = [proc EXCEPT ![i] = q]
           /\ lastCron' = CronOutcome(q)
    /\ UNCHANGED <<kv, writer, tick, nextId, failed>>

\* A remote request fails: the transport rejects, the response is not ok, or
\* its code is not 200.  fetchHomeworkFromZhixue throws before any put.
RemoteFail(i, message) ==
    /\ proc[i].pc = "fetching"
    /\ LET q == Fail(proc[i], "upstream", message)
       IN  /\ proc' = [proc EXCEPT ![i] = q]
           /\ lastCron' = CronOutcome(q)
    /\ UNCHANGED <<kv, writer, tick, nextId, failed>>

\* A put is applied by the store and resolves.  When it is the last of the
\* three, Promise.all resolves and the handler ends.
PutOk(i, k) ==
    /\ proc[i].puts[k] = "pending"
    /\ kv' = [kv EXCEPT ![k] = Some(PutValue(proc[i], k))]
    /\ writer' = [writer EXCEPT ![k] = [id |-> proc[i].id, at |-> proc[i].savedAt]]
    /\ LET p == [proc[i] EXCEPT !.puts[k] = "ok"]
           q == IF p.pc = "saving" /\ \A x \in Keys : p.puts[x] = "ok"
                THEN Succeed(p, PutValue(p, CACHE_KEY)) ELSE p
       IN  /\ proc' = [proc EXCEPT ![i] = q]
           /\ lastCron' = CronOutcome(q)
    /\ UNCHANGED <<tick, nextId, failed>>

\* A put rejects and leaves its key alone.  The first rejection rejects
\* Promise.all and the handler ends; the puts still pending stay in flight.
PutFail(i, k) ==
    /\ proc[i].puts[k] = "pending"
    /\ LET p == [proc[i] EXCEPT !.puts[k] = "failed"]
           q == IF p.pc = "saving" THEN Fail(p, "store", "KV PUT failed") ELSE p
       IN  /\ proc' = [proc EXCEPT ![i] = q]
           /\ lastCron' = CronOutcome(q)
    /\ failed' = failed \cup {proc[i].id}
    /\ UNCHANGED <<kv, writer, tick, nextId>>

\* Time passes.
Tick ==
    /\ tick + 1 < Len(Instants)
    /\ tick' = tick + 1
    /\ proc' = Running
    /\ UNCHANGED <<kv, writer, nextId, lastCron, failed>>

(***************************************************************************)
(* The initial store.  The namespace outlives deployments and is writable  *)
(* from outside the Worker, so a behaviour starts from an empty namespace, *)
(* from a generation left by this deployment, or from one with one key in  *)
(* another state.                                                          *)
(***************************************************************************)
LegacyIcs == <<"BEGIN:VCALENDAR", "VERSION:2.0", "METHOD:PUBLISH", "END:VCALENDAR">>

GoodMeta == Some(JSONstringify(toISOString(Clock(0)), 5))

InitialStores ==
    {EmptyStore}
    \cup {Store(ics, GoodMeta, Some(DEPLOYMENT_VERSION)) :
            ics \in {NULL, Some(<< >>), Some(LegacyIcs)}}
    \cup {Store(Some(LegacyIcs), meta, Some(DEPLOYMENT_VERSION)) :
            meta \in {NULL, Some(EmptyText), Some(GarbageText), Some(JsonNullText),
                      Some(NoFieldText), Some(BadDateText)}}
    \cup {Store(Some(LegacyIcs), GoodMeta, marker) : marker \in {NULL, Some("old-version")}}

Cookies == {"", "test_cookie"}

\* What the remote side answers as result.list to the request with
\* completeStatus = stat: one open homework, and a finished one or no list.
Homework(stat) == IF stat = 0 THEN {Some(<<"hw1">>)} ELSE {NULL, Some(<<"hw2">>)}

Messages == {"Failed to fetch from Zhixue", "Zhixue API error"}

OracleIdle ==
    /\ oPc = "off"
    /\ oNow = InvalidDate
    /\ oLastUpdated = InvalidDate
    /\ oLast = InvalidDate
    /\ oFresh = FALSE

Init ==
    /\ kv \in InitialStores
    /\ writer = [k \in Keys |-> NoWriter]
    /\ tick = 0
    /\ nextId = 1
    /\ proc = [i \in Isolates |-> Idle]
    /\ lastCron = [id |-> 0, log |-> "none"]
    /\ failed = {}
    /\ OracleIdle

Next ==
    \/ \E c \in Cookies : StartFetch(1, c) /\ UNCHANGED oracleVars
    \/ \E c \in Cookies : StartScheduled(1, c) /\ UNCHANGED oracleVars
    \/ \E i \in Isolates, k \in Keys : Get(i, k) /\ UNCHANGED oracleVars
    \/ \E i \in Isolates, k \in Keys : GetFail(i, k) /\ UNCHANGED oracleVars
    \/ \E i \in Isolates : \E l \in Homework(proc[i].stat) : RemoteOk(i, l) /\ UNCHANGED oracleVars
    \/ \E i \in Isolates, m \in Messages : RemoteFail(i, m) /\ UNCHANGED oracleVars
    \/ \E i \in Isolates, k \in Keys : PutOk(i, k) /\ UNCHANGED oracleVars
    \/ \E i \in Isolates, k \in Keys : PutFail(i, k) /\ UNCHANGED oracleVars
    \/ Tick /\ UNCHANGED oracleVars

Spec == Init /\ [][Next]_vars

\* Every get, remote request and put an invocation waits for is answered in
\* the end, by a result or by an error: the store and the transport time
\* out on their side.
Settle ==
    \/ \E i \in Isolates, k \in Keys : Get(i, k) \/ GetFail(i, k) \/ PutOk(i, k) \/ PutFail(i, k)
    \/ \E i \in Isolates : \E l \in Homework(proc[i].stat) : RemoteOk(i, l)
    \/ \E i \in Isolates, m \in Messages : RemoteFail(i, m)

\* One invocation from start to end, at any of the instants.
SingleNext ==
    \/ nextId = 1 /\ (\E c \in Cookies : StartFetch(1, c)) /\ UNCHANGED oracleVars
    \/ nextId = 1 /\ (\E c \in Cookies : StartScheduled(1, c)) /\ UNCHANGED oracleVars
    \/ Settle /\ UNCHANGED oracleVars
    \/ Tick /\ UNCHANGED oracleVars

SingleSpec == Init /\ [][SingleNext]_vars /\ WF_vars(Settle /\ UNCHANGED oracleVars)

(***************************************************************************)
(* Invocations side by side: the runtime starts a handler while another is *)
(* still waiting on the store or on the remote side, and the store applies *)
(* the puts of both in any order.  The credential is set, and the          *)
(* namespace starts empty or holding one generation of this deployment.    *)
(***************************************************************************)
RaceStores == {EmptyStore, Store(Some(LegacyIcs), GoodMeta, Some(DEPLOYMENT_VERSION))}

RaceInit ==
    /\ kv \in RaceStores
    /\ writer = [k \in Keys |-> NoWriter]
    /\ tick = 0
    /\ nextId = 1
    /\ proc = [i \in Isolates |-> Idle]
    /\ lastCron = [id |-> 0, log |-> "none"]
    /\ failed = {}
    /\ OracleIdle

\* Time passes, over the first two instants of the clock.
RaceTick == tick + 2 < Len(Instants) /\ Tick

RaceNext ==
    \/ \E i \in Isolates : StartFetch(i, "test_cookie") /\ UNCHANGED oracleVars
    \/ \E i \in Isolates : StartScheduled(i, "test_cookie") /\ UNCHANGED oracleVars
    \/ \E i \in Isolates, k \in Keys : Get(i, k) /\ UNCHANGED oracleVars
    \/ \E i \in Isolates : \E l \in Homework(proc[i].stat) : RemoteOk(i, l) /\ UNCHANGED oracleVars
    \/ \E i \in Isolates, m \in Messages : RemoteFail(i, m) /\ UNCHANGED oracleVars
    \/ \E i \in Isolates, k \in Keys : PutOk(i, k) /\ UNCHANGED oracleVars
    \/ \E i \in Isolates, k \in Keys : PutFail(i, k) /\ UNCHANGED oracleVars
    \/ RaceTick /\ UNCHANGED oracleVars

RaceSpec == RaceInit /\ [][RaceNext]_vars

(***************************************************************************)
(* The oracle on its own: getLastScheduledTime and isCacheInValidPeriod    *)
(* called on instants around every hour of days that follow the end of a   *)
(* month, of February in a leap and in a common year, and of a year.       *)
(***************************************************************************)
AnchorDays ==
    { MakeDay(2026, 1, 6), MakeDay(2026, 0, 1), MakeDay(2024, 2, 1),
      MakeDay(2026, 2, 1), MakeDay(2026, 4, 1) }

OracleDays == {a + d : a \in AnchorDays, d \in 0..MaxDayOffset}

OracleNows ==
    {TimeValue(d, MakeTime(h, 0, 0, 0) + off) :
        d \in OracleDays, h \in 0..23, off \in {0, 1, msPerHour - 1}}

LastUpdatedInputs(now) ==
    {InvalidDate, now}
    \cup {TimeValue(now.day + dd, MakeTime(h, 0, 0, 0) + off) :
            dd \in {-1, 0, 1}, h \in {9, 10, 21, 22}, off \in {0, msPerHour - 1}}

OracleInit ==
    /\ kv = EmptyStore
    /\ writer = [k \in Keys |-> NoWriter]
    /\ tick = 0
    /\ nextId = 1
    /\ proc = [i \in Isolates |-> Idle]
    /\ lastCron = [id |-> 0, log |-> "none"]
    /\ failed = {}
    /\ oPc = "input"
    /\ oNow \in OracleNows
    /\ oLastUpdated \in LastUpdatedInputs(oNow)
    /\ oLast = InvalidDate
    /\ oFresh = FALSE

CallGetLastScheduledTime ==
    /\ oPc = "input"
    /\ oLast' = getLastScheduledTime(oNow)
    /\ oPc' = "scheduled"
    /\ UNCHANGED <<oNow, oLastUpdated, oFresh>>

CallIsCacheInValidPeriod ==
    /\ oPc = "scheduled"
    /\ oFresh' = isCacheInValidPeriod(oLastUpdated, oNow)
    /\ oPc' = "checked"
    /\ UNCHANGED <<oNow, oLastUpdated, oLast>>

\* getLastScheduledTime is called on the instant it returned.
CallGetLastScheduledTimeAgain ==
    /\ oPc = "scheduled"
    /\ oNow' = oLast
    /\ oLast' = getLastScheduledTime(oLast)
    /\ oPc' = "again"
    /\ UNCHANGED <<oLastUpdated, oFresh>>

OracleNext ==
    \/ CallGetLastScheduledTime /\ UNCHANGED sysVars
    \/ CallIsCacheInValidPeriod /\ UNCHANGED sysVars
    \/ CallGetLastScheduledTimeAgain /\ UNCHANGED sysVars

OracleSpec == OracleInit /\ [][OracleNext]_vars

(***************************************************************************)
(* The reference the claims are stated against: the latest instant at      *)
(* 10:00 or 22:00 UTC that is not after now, by the hour of now alone.     *)
(***************************************************************************)
AtOrAfter(a, b) ==
    /\ ~a.nan
    /\ ~b.nan
    /\ (a.day > b.day \/ (a.day = b.day /\ a.ms >= b.ms))

RefLast(now) ==
    IF now.ms >= MakeTime(22, 0, 0, 0) THEN TimeValue(now.day, MakeTime(22, 0, 0, 0))
    ELSE IF now.ms >= MakeTime(10, 0, 0, 0) THEN TimeValue(now.day, MakeTime(10, 0, 0, 0))
    ELSE TimeValue(now.day - 1, MakeTime(22, 0, 0, 0))

\* C1: for every now, getLastScheduledTime(now) is a valid instant at
\* 10:00:00.000 or 22:00:00.000 UTC, on the UTC day of now or on the day
\* before it, and it is not later than now.
C1_ScheduledHourNotAfterNow ==
    oPc # "input" =>
        /\ ~oLast.nan
        /\ toISOString(oLast)[4] \in {10, 22}
        /\ oLast.ms \in {MakeTime(10, 0, 0, 0), MakeTime(22, 0, 0, 0)}
        /\ oLast.day \in {oNow.day, oNow.day - 1}
        /\ AtOrAfter(oNow, oLast)

\* C1 witness: the call has returned 22:00 of the day before now.
C1_Witness ==
    /\ oPc = "scheduled"
    /\ oLast.day = oNow.day - 1
    /\ oLast.ms = MakeTime(22, 0, 0, 0)

\* C2: getLastScheduledTime(now) is 22:00 of the day of now when the hour of
\* now is >= 22, 10:00 of that day when the hour is in 10..21, and 22:00 of the
\* previous calendar day when the hour is < 10; on the first day of a month
\* the previous day is the last day of the month before.
C2_LatestScheduledInstant ==
    oPc # "input" =>
        /\ oLast = RefLast(oNow)
        /\ toISOString(oNow)[4] >= 22 =>
             toISOString(oLast) = [toISOString(oNow) EXCEPT ![4] = 22, ![5] = 0, ![6] = 0, ![7] = 0]
        /\ toISOString(oNow)[4] \in 10..21 =>
             toISOString(oLast) = [toISOString(oNow) EXCEPT ![4] = 10, ![5] = 0, ![6] = 0, ![7] = 0]
        /\ toISOString(oNow)[4] < 10 =>
             /\ toISOString(oLast)[4] = 22
             /\ toISOString(TimeValue(oLast.day + 1, 0))[3] = toISOString(oNow)[3]
             /\ toISOString(oNow)[3] = 1 => toISOString(oLast)[2] # toISOString(oNow)[2]

\* C2 witness: now is before 10:00 on 1 January and the call has returned
\* 22:00 of 31 December of the year before.
C2_Witness ==
    /\ oPc = "scheduled"
    /\ toISOString(oNow)[2] = 1
    /\ toISOString(oNow)[3] = 1
    /\ toISOString(oNow)[4] < 10
    /\ toISOString(oLast) = <<toISOString(oNow)[1] - 1, 12, 31, 22, 0, 0, 0>>

\* C3: isCacheInValidPeriod(lastUpdated, now) is true exactly when lastUpdated
\* is at or after the last scheduled instant of now (equal counts as fresh, an
\* Invalid Date never does), and for this now every later lastUpdated is fresh
\* when this one is.
C3_FreshIffAtOrAfterScheduled ==
    oPc = "checked" =>
        /\ oFresh <=> AtOrAfter(oLastUpdated, oLast)
        /\ oFresh <=> AtOrAfter(oLastUpdated, RefLast(oNow))
        /\ oFresh =>
             \A t \in LastUpdatedInputs(oNow) :
                 AtOrAfter(t, oLastUpdated) => isCacheInValidPeriod(t, oNow)

\* C3 witness: a lastUpdated equal to the scheduled instant was found fresh.
C3_Witness ==
    /\ oPc = "checked"
    /\ oFresh
    /\ oLastUpdated = oLast

(***************************************************************************)
(* The read path and the scheduled refresh.  The claims are stated on the  *)
(* local state of an invocation: what its three reads returned (got), who  *)
(* had written that (from), the time it evaluated at (evalAt), what        *)
(* getCachedCalendar returned (hit) and how the handler ended.             *)
(***************************************************************************)
\* The three reads of a fetch invocation have resolved and getCachedCalendar
\* has returned.
Evaluated(p) == p.kind = "fetch" /\ p.read = Keys

\* The read path goes through updateCalendarCache: it serves nothing from the
\* cache, and it ends with an upstream or store error or with the text it
\* generated after its three puts.
Regenerates(p) ==
    /\ p.hit = NULL
    /\ p.pc \in {"fetching", "saving", "done"}
    /\ p.pc = "done" =>
         \/ p.status = 500 /\ p.error \in {"upstream", "store"}
         \/ /\ p.status = 200
            /\ p.error = "none"
            /\ p.stat = 2
            /\ p.body = generateCalendar(p.list)
            /\ \A k \in Keys : p.puts[k] = "ok"

\* The read path answers with the artifact it read, without a remote request
\* and without a put.
ServesCached(p) ==
    /\ p.pc = "done"
    /\ p.hit = p.got[CACHE_KEY]
    /\ p.status = 200
    /\ p.error = "none"
    /\ p.body = p.got[CACHE_KEY][1]
    /\ p.stat = 0
    /\ \A k \in Keys : p.puts[k] = "none"

\* The metadata read is a JSON object whose lastUpdated is a date.
ReadableMeta(p) ==
    /\ p.got[CACHE_META_KEY] # NULL
    /\ p.got[CACHE_META_KEY][1].shape = "object"
    /\ ~DateParse(p.got[CACHE_META_KEY][1].lastUpdated).nan

\* The lastUpdated read is at or after the last scheduled instant of evalAt.
ReadFresh(p) ==
    /\ ReadableMeta(p)
    /\ AtOrAfter(DateParse(p.got[CACHE_META_KEY][1].lastUpdated), RefLast(p.evalAt))

\* C4: a read that finds a deployment marker other than DEPLOYMENT_VERSION, or
\* none, regenerates and does not return the stored artifact, whatever the
\* artifact and the metadata are.
C4_MarkerMismatchRegenerates ==
    \A i \in Isolates :
        Evaluated(proc[i]) /\ proc[i].got[DEPLOYMENT_KEY] # Some(DEPLOYMENT_VERSION)
            => Regenerates(proc[i])

\* C4 witness: a read found a non-empty artifact, fresh metadata and the marker
\* of an older deployment, and answered 200 with the text it generated.
C4_Witness ==
    \E i \in Isolates :
        /\ Evaluated(proc[i])
        /\ proc[i].got[DEPLOYMENT_KEY] = Some("old-version")
        /\ TruthyText(proc[i].got[CACHE_KEY])
        /\ ReadFresh(proc[i])
        /\ proc[i].status = 200
        /\ proc[i].body = generateCalendar(proc[i].list)

\* C5: a read whose three reads return what one regeneration put, evaluated
\* before the first scheduled instant after that regeneration's save, returns
\* the text that regeneration wrote, without a remote request or a put.
C5_RoundTrip ==
    \A i \in Isolates :
        ( /\ Evaluated(proc[i])
          /\ \E g \in 1..MaxInvocations : \A k \in Keys : proc[i].from[k].id = g
          /\ AtOrAfter(proc[i].from[CACHE_KEY].at, RefLast(proc[i].evalAt)) )
            => /\ ServesCached(proc[i])
               /\ kv = proc[i].before
               /\ DateParse(proc[i].got[CACHE_META_KEY][1].lastUpdated)
                    = proc[i].from[CACHE_META_KEY].at

\* C5 witness: a regeneration saved at 22:00:00.000 on 31 December and a read
\* before 10:00 on 1 January was served its text.
C5_Witness ==
    \E i \in Isolates :
        /\ Evaluated(proc[i])
        /\ \A k \in Keys : proc[i].from[k].id = 1
        /\ proc[i].from[CACHE_KEY].at = Clock(1)
        /\ proc[i].evalAt = Clock(2)
        /\ ServesCached(proc[i])
        /\ proc[i].body = generateCalendar(<<"hw1", "hw2">>)

\* C6: a read that finds a non-empty artifact, the marker DEPLOYMENT_VERSION and
\* parseable metadata with a fresh lastUpdated returns that artifact unchanged,
\* makes no remote request and no put, and leaves the three keys as they were.
C6_FreshCacheServedUntouched ==
    \A i \in Isolates :
        ( /\ Evaluated(proc[i])
          /\ TruthyText(proc[i].got[CACHE_KEY])
          /\ proc[i].got[DEPLOYMENT_KEY] = Some(DEPLOYMENT_VERSION)
          /\ ReadFresh(proc[i]) )
            => /\ ServesCached(proc[i])
               /\ kv = proc[i].before
               /\ \A k \in Keys : writer[k].id # proc[i].id

\* C6 witness: the generation the namespace held at the start was served.
C6_Witness ==
    \E i \in Isolates :
        /\ Evaluated(proc[i])
        /\ \A k \in Keys : proc[i].from[k].id = 0
        /\ proc[i].body = LegacyIcs
        /\ proc[i].status = 200
        /\ proc[i].stat = 0

\* The stored state read is partial or corrupt: no artifact or an empty one, no
\* metadata or empty metadata, metadata that is no JSON object, or one without
\* a lastUpdated that is a date.
Corrupt(p) == ~TruthyText(p.got[CACHE_KEY]) \/ ~ReadableMeta(p)

\* C7: a read that finds a partial or corrupt stored state regenerates: it does
\* not return the stored artifact and the bad metadata makes it fail with no
\* error.
C7_CorruptStateRegenerates ==
    \A i \in Isolates :
        Evaluated(proc[i]) /\ Corrupt(proc[i])
            => Regenerates(proc[i]) /\ proc[i].error # "internal"

\* C7 witness: a read found the metadata to be the JSON text null beside an
\* artifact and the right marker, and answered 200 with the text it generated.
C7_Witness ==
    \E i \in Isolates :
        /\ Evaluated(proc[i])
        /\ proc[i].got[CACHE_META_KEY] = Some(JsonNullText)
        /\ proc[i].got[CACHE_KEY] = Some(LegacyIcs)
        /\ proc[i].got[DEPLOYMENT_KEY] = Some(DEPLOYMENT_VERSION)
        /\ proc[i].status = 200
        /\ proc[i].hit = NULL

\* The scheduled invocation on isolate i has ended in failure.
FailedRefresh(p) == p.kind = "scheduled" /\ p.pc = "done" /\ p.log = "error"

\* C8: after a scheduled refresh that failed, by a remote or by a store error,
\* the artifact, metadata and deployment-marker keys hold what they held
\* before it.
C8_FailedRefreshLeavesStoreUntouched ==
    \A i \in Isolates : FailedRefresh(proc[i]) => kv = proc[i].before

\* The read found the three keys as one generation wrote them (the one the
\* namespace held at the start, or a regeneration), older than the scheduled
\* refresh that failed last.
PreviousGenerationAfterFailedRefresh(p) ==
    /\ Evaluated(p)
    /\ lastCron.log = "error"
    /\ \E g \in 0..MaxInvocations : g < lastCron.id /\ \A k \in Keys : p.from[k].id = g
    /\ TruthyText(p.got[CACHE_KEY])
    /\ p.got[DEPLOYMENT_KEY] = Some(DEPLOYMENT_VERSION)
    /\ ReadableMeta(p)

\* C9 as claimed: after a failed scheduled refresh every read is served the
\* previous generation until a scheduled run succeeds.
C9_Original ==
    \A i \in Isolates :
        PreviousGenerationAfterFailedRefresh(proc[i]) => ServesCached(proc[i])

\* C9 amended: after a failed scheduled refresh that applied none of its puts,
\* so that the three keys still hold the previous generation, a read is served
\* that generation exactly when it is still fresh at the read, that is when no
\* scheduled instant has passed since its lastUpdated; a read at or after that
\* instant regenerates on demand, whether or not a scheduled run has succeeded.
C9_PreviousGenerationServedWhileFresh ==
    \A i \in Isolates :
        PreviousGenerationAfterFailedRefresh(proc[i]) =>
            /\ ReadFresh(proc[i]) => ServesCached(proc[i])
            /\ ~ReadFresh(proc[i]) => Regenerates(proc[i])

\* C9 witness: after a failed scheduled refresh a read was served the previous
\* generation, still fresh.
C9_Witness ==
    \E i \in Isolates :
        /\ PreviousGenerationAfterFailedRefresh(proc[i])
        /\ ServesCached(proc[i])

\* C10, for the reads that find the artifact and the metadata
\* written by different saves, one of which had failed before the read began:
\* such a read serves nothing from the cache.
C10_PartialSaveNeverServed ==
    \A i \in Isolates :
        ( /\ Evaluated(proc[i])
          /\ proc[i].from[CACHE_KEY].id # proc[i].from[CACHE_META_KEY].id
          /\ \E k \in {CACHE_KEY, CACHE_META_KEY} : proc[i].from[k].id \in proc[i].after )
            => proc[i].hit = NULL

\* Every invocation is over and every put has been applied or rejected.
Quiescent == \A i \in Isolates : ~InFlight(i)

\* C11: when regenerations have run side by side, with their puts applied in
\* any order and none rejected, then once all of them are over the artifact,
\* the metadata and the marker in the store were written by the same
\* regeneration.
C11_LastWriterWinsAsUnit ==
    ( /\ Quiescent
      /\ failed = {}
      /\ \E k \in Keys : writer[k].id # 0 )
        => \E g \in 1..MaxInvocations : \A k \in Keys : writer[k].id = g

\* The read path ended although one of its three reads never returned a
\* value: that read was rejected.
ReadRejected(p) == p.kind = "fetch" /\ p.cookie # "" /\ p.pc = "done" /\ p.read # Keys

\* C12: a read path one of whose three store reads fails treats the cache as
\* absent: it regenerates and answers 200 with the text it produced, not with
\* an error response.
C12_ReadFailureDegradesToAbsent ==
    \A i \in Isolates :
        ReadRejected(proc[i]) =>
            /\ proc[i].tries = 1
            /\ proc[i].status = 200
            /\ proc[i].body = generateCalendar(proc[i].list)

\* Something went wrong in the scheduled invocation: the credential is
\* missing, a remote request failed, or a put was rejected before the handler
\* ended.
ScheduledFailure(p) ==
    \/ p.cookie = ""
    \/ p.tries = 1 /\ p.saves = 0
    \/ p.id \in failed /\ \E k \in Keys : p.puts[k] # "ok"

\* C13: the scheduled handler returns normally whatever happens: when it is
\* over it has logged the update if the remote requests and the three puts
\* succeeded, and logged the error, and nothing else, if the credential is
\* missing, a remote request failed or a put was rejected; it builds no
\* response.
C13_ScheduledOnlyLogs ==
    \A i \in Isolates :
        proc[i].kind = "scheduled" /\ proc[i].pc = "done" =>
            /\ proc[i].log \in {"updated", "error"}
            /\ proc[i].log = "error" <=> ScheduledFailure(proc[i])
            /\ proc[i].log = "error" <=> proc[i].error \in {"config", "upstream", "store"}
            /\ proc[i].log = "updated" <=> proc[i].error = "none"
            /\ proc[i].status = 0

\* C13 witness: a scheduled invocation ended by logging the rejection of a
\* put.
C13_Witness ==
    \E i \in Isolates :
        /\ proc[i].kind = "scheduled"
        /\ proc[i].pc = "done"
        /\ \E k \in Keys : proc[i].puts[k] = "failed"
        /\ proc[i].log = "error"
        /\ proc[i].error = "store"

\* C14: a request that finds no credential is answered 500 with a body that
\* names ZHIXUE_COOKIE, before any store read, remote request or put, and
\* the store is as the request found it.
C14_MissingCredentialAnswered500 ==
    \A i \in Isolates :
        proc[i].kind = "fetch" /\ proc[i].cookie = "" =>
            /\ proc[i].pc = "done"
            /\ proc[i].status = 500
            /\ proc[i].body = <<"Error: ZHIXUE_COOKIE secret is not set.">>
            /\ proc[i].read = {}
            /\ proc[i].tries = 0
            /\ proc[i].stat = 0
            /\ proc[i].saves = 0
            /\ \A k \in Keys : proc[i].puts[k] = "none"
            /\ kv = proc[i].before

\* C14 witness: a request without credential was answered 500 while the store
\* held a fresh generation.
C14_Witness ==
    \E i \in Isolates :
        /\ proc[i].kind = "fetch"
        /\ proc[i].cookie = ""
        /\ proc[i].status = 500
        /\ proc[i].error = "config"
        /\ kv = Store(Some(LegacyIcs), GoodMeta, Some(DEPLOYMENT_VERSION))

\* The regeneration of a request is over and went wrong: a remote request
\* failed, so that nothing was saved, or a put was rejected.
RemoteFailed(p) == p.kind = "fetch" /\ p.pc = "done" /\ p.tries = 1 /\ p.saves = 0

PutRejected(p) ==
    p.kind = "fetch" /\ p.pc = "done" /\ p.saves = 1 /\ \E k \in Keys : p.puts[k] = "failed"

\* C15: a request whose regeneration fails, by a remote request that fails or
\* answers another code than 200 or by a rejected put, is answered 500 with
\* the message of the error; a request that regenerates is answered 200 only
\* with the text it generated, after its three puts were applied.
C15_RegenerationFailureAnswered500 ==
    \A i \in Isolates :
        /\ RemoteFailed(proc[i]) =>
              /\ proc[i].status = 500
              /\ \E m \in Messages : proc[i].body = <<"Internal Error: ", m>>
        /\ PutRejected(proc[i]) =>
              /\ proc[i].status = 500
              /\ proc[i].body = <<"Internal Error: ", "KV PUT failed">>
        /\ proc[i].kind = "fetch" /\ proc[i].tries = 1 /\ proc[i].status = 200 =>
              /\ proc[i].stat = 2
              /\ \A k \in Keys : proc[i].puts[k] = "ok"
              /\ proc[i].body = generateCalendar(proc[i].list)

\* C15 witness: a request found a stale generation, its second remote request
\* answered an error code, and it was answered 500.
C15_Witness ==
    \E i \in Isolates :
        /\ RemoteFailed(proc[i])
        /\ proc[i].got[CACHE_KEY] = Some(LegacyIcs)
        /\ proc[i].stat = 1
        /\ proc[i].status = 500
        /\ proc[i].body = <<"Internal Error: ", "Zhixue API error">>

\* C16: getLastScheduledTime called on an instant it returned returns that
\* instant.
C16_Idempotent ==
    oPc = "again" => ~oLast.nan /\ oLast = oNow

\* C16 witness: the second call was made on 22:00 of 31 December 2025, the
\* result for an instant of 1 January 2026 before 10:00.
C16_Witness ==
    /\ oPc = "again"
    /\ oNow = TimeValue(MakeDay(2025, 11, 31), MakeTime(22, 0, 0, 0))
    /\ oLast = oNow

\* C17: every 200 response of fetch has Content-Type text/calendar;
\* charset=utf-8 and Access-Control-Allow-Origin *, and its body is the
\* artifact served: the text read from the store when getCachedCalendar
\* returned it, the text just generated and put otherwise.
C17_OkResponseIsCalendar ==
    \A i \in Isolates :
        proc[i].kind = "fetch" /\ proc[i].status = 200 =>
            /\ proc[i].headers["Content-Type"] = "text/calendar; charset=utf-8"
            /\ proc[i].headers["Access-Control-Allow-Origin"] = "*"
            /\ proc[i].body =
                 IF proc[i].hit # NULL THEN proc[i].got[CACHE_KEY][1]
                 ELSE PutValue(proc[i], CACHE_KEY)
            /\ proc[i].body # << >>

\* C17 witness: a request was answered 200 with the text it generated from
\* one homework and a missing list.
C17_Witness ==
    \E i \in Isolates :
        /\ proc[i].kind = "fetch"
        /\ proc[i].status = 200
        /\ proc[i].hit = NULL
        /\ proc[i].headers = CalendarHeaders
        /\ proc[i].body = generateCalendar(<<"hw1">>)

\* An invocation calls fetchHomeworkFromZhixue at most once, so makes at most
\* two remote requests, issues the three puts at most once, and is over as
\* soon as one of them fails; when it is over, fetch has answered and
\* scheduled has logged.
OneAttempt(p) ==
    /\ p.tries <= 1
    /\ p.saves <= p.tries
    /\ p.stat <= 2 * p.tries
    /\ p.saves = 1 => p.stat = 2
    /\ p.error # "none" => p.pc = "done"
    /\ (\E k \in Keys : p.puts[k] = "failed") => p.pc = "done"
    /\ p.pc = "done" =>
         IF p.kind = "fetch" THEN p.status \in {200, 500} /\ p.log = "none"
         ELSE p.log \in {"updated", "error"} /\ p.status = 0

Waiting(i) == proc[i].pc \in {"reading", "fetching", "saving"}

\* C18: no invocation retries: whatever errors occur it makes at most one
\* regeneration attempt, one call of fetchHomeworkFromZhixue and at most one
\* save of the three keys, and then ends with a response or a logged status.
C18_NoRetry ==
    /\ [](\A i \in Isolates : OneAttempt(proc[i]))
    /\ \A i \in Isolates : Waiting(i) ~> (proc[i].pc = "done")

\* C18 witness: a request regenerated, one of its puts was rejected, and it
\* was answered 500 after one call of fetchHomeworkFromZhixue and one save.
C18_Witness ==
    \E i \in Isolates :
        /\ proc[i].kind = "fetch"
        /\ proc[i].pc = "done"
        /\ proc[i].tries = 1
        /\ proc[i].saves = 1
        /\ proc[i].error = "store"
        /\ proc[i].status = 500

\* The slot as the read path sees it at the instant now: FRESH when
\* getCachedCalendar would return the artifact, STALE or EMPTY otherwise.
SlotFresh(store, now) ==
    getCachedCalendar(store[CACHE_KEY], store[CACHE_META_KEY], store[DEPLOYMENT_KEY], now).value
        # NULL

\* The regeneration of invocation p is over, puts and all, and it failed.
FailedRegeneration(i) ==
    /\ proc[i].pc = "done"
    /\ ~InFlight(i)
    /\ proc[i].tries = 1
    /\ proc[i].error \in {"upstream", "store"}

\* C19: the slot becomes FRESH only by a regeneration that succeeded: after a
\* regeneration that failed, a slot that a read would have regenerated before
\* it is still one a read regenerates; and the slot is EMPTY only as long as
\* no artifact was ever written.
C19_FreshOnlyBySuccessfulRegeneration ==
    /\ \A i \in Isolates :
          FailedRegeneration(i) /\ ~SlotFresh(proc[i].before, Now) => ~SlotFresh(kv, Now)
    /\ kv[CACHE_KEY] = NULL => writer[CACHE_KEY].id = 0

\* A scheduled instant s, 10:00 or 22:00 UTC of some day, has u < s <= t.
Crossed(u, t) ==
    \E d \in u.day..t.day, h \in {10, 22} :
        LET s == TimeValue(d, MakeTime(h, 0, 0, 0))
        IN  AtOrAfter(t, s) /\ ~AtOrAfter(u, s)

\* C20: a read at t that finds an artifact, the right marker and metadata with
\* lastUpdated = u <= t serves the artifact from the cache if and only if no
\* scheduled instant s has u < s <= t, and regenerates otherwise.
C20_StaleIffScheduledInstantCrossed ==
    \A i \in Isolates :
        ( /\ Evaluated(proc[i])
          /\ TruthyText(proc[i].got[CACHE_KEY])
          /\ proc[i].got[DEPLOYMENT_KEY] = Some(DEPLOYMENT_VERSION)
          /\ ReadableMeta(proc[i])
          /\ AtOrAfter(proc[i].evalAt, DateParse(proc[i].got[CACHE_META_KEY][1].lastUpdated)) )
            => LET u == DateParse(proc[i].got[CACHE_META_KEY][1].lastUpdated)
               IN  IF Crossed(u, proc[i].evalAt)
                   THEN Regenerates(proc[i])
                   ELSE ServesCached(proc[i])

\* C20 witness: a generation saved at 21:59:59.999 was read at 22:00:00.000
\* exactly, and the read regenerated.
C20_Witness ==
    \E i \in Isolates :
        /\ Evaluated(proc[i])
        /\ proc[i].got[CACHE_KEY] = Some(LegacyIcs)
        /\ proc[i].got[DEPLOYMENT_KEY] = Some(DEPLOYMENT_VERSION)
        /\ proc[i].got[CACHE_META_KEY] = GoodMeta
        /\ proc[i].evalAt = Clock(1)
        /\ proc[i].hit = NULL
        /\ proc[i].tries = 1

\* C21: a read whose three gets return an artifact written by one
\* regeneration and metadata or a marker written by another, or not yet
\* overwritten, while no put was ever rejected, does not serve that artifact
\* from the cache.
C21_MismatchedReadNotServed ==
    \A i \in Isolates :
        ( /\ Evaluated(proc[i])
          /\ failed = {}
          /\ \E k \in {CACHE_META_KEY, DEPLOYMENT_KEY} :
                proc[i].from[k].id # proc[i].from[CACHE_KEY].id )
            => proc[i].hit = NULL

\* C22: a scheduled invocation that finds the credential never reads the
\* cache and always calls fetchHomeworkFromZhixue, whatever the store holds;
\* when it has logged the update, the artifact it generated, the metadata
\* with lastUpdated at the instant of the save and the count of the
\* homework, and the marker DEPLOYMENT_VERSION are in the store.
C22_ScheduledUnconditional ==
    \A i \in Isolates :
        proc[i].kind = "scheduled" /\ proc[i].cookie # "" =>
            /\ proc[i].tries = 1
            /\ proc[i].read = {}
            /\ proc[i].log = "updated" =>
                  /\ proc[i].stat = 2
                  /\ kv[CACHE_KEY] = Some(generateCalendar(proc[i].list))
                  /\ kv[CACHE_META_KEY] =
                       Some(JSONstringify(toISOString(proc[i].savedAt), Len(proc[i].list)))
                  /\ kv[DEPLOYMENT_KEY] = Some(DEPLOYMENT_VERSION)
                  /\ \A k \in Keys : writer[k].id = proc[i].id

\* C22 witness: a scheduled invocation found a fresh generation with the
\* right marker and replaced it.
C22_Witness ==
    \E i \in Isolates :
        /\ proc[i].kind = "scheduled"
        /\ proc[i].log = "updated"
        /\ SlotFresh(proc[i].before, proc[i].savedAt)
        /\ proc[i].before[DEPLOYMENT_KEY] = Some(DEPLOYMENT_VERSION)
        /\ kv[CACHE_KEY] # proc[i].before[CACHE_KEY]
        /\ kv[CACHE_KEY] = Some(generateCalendar(proc[i].list))

\* C23: a regeneration, of a request or of a scheduled invocation, issues no
\* put before both remote requests have succeeded; when a remote request
\* fails, the first or the second, the three keys hold what they held when
\* the invocation started.
C23_NoPutBeforeBothRequests ==
    \A i \in Isolates :
        /\ (\E k \in Keys : proc[i].puts[k] # "none") => proc[i].stat = 2
        /\ proc[i].stat < 2 => \A k \in Keys : writer[k].id # proc[i].id \/ proc[i].id = 0
        /\ proc[i].error = "upstream" =>
              /\ proc[i].stat < 2
              /\ \A k \in Keys : proc[i].puts[k] = "none"
              /\ kv = proc[i].before

\* C23 witness: the first remote request of a regeneration succeeded, the second
\* failed, and the generation the store held is still there.
C23_Witness ==
    \E i \in Isolates :
        /\ proc[i].error = "upstream"
        /\ proc[i].stat = 1
        /\ proc[i].list = <<"hw1">>
        /\ kv = Store(Some(LegacyIcs), GoodMeta, Some(DEPLOYMENT_VERSION))
        /\ kv = proc[i].before

\* The lastUpdated stored under the metadata key, as a date.
StoredLastUpdated(store) ==
    IF store[CACHE_META_KEY] = NULL \/ store[CACHE_META_KEY][1].shape # "object"
    THEN InvalidDate
    ELSE DateParse(store[CACHE_META_KEY][1].lastUpdated)

\* The metadata key gets a new value in this step, in place of one with a
\* lastUpdated.
MetaReplaced == ~StoredLastUpdated(kv).nan /\ kv'[CACHE_META_KEY] # kv[CACHE_META_KEY]

\* C24 as claimed: over any interleaving of regenerations the lastUpdated
\* stored under the metadata key never decreases.
C24_Original ==
    [][MetaReplaced => AtOrAfter(StoredLastUpdated(kv'), StoredLastUpdated(kv))]_vars

\* C24 amended: the lastUpdated stored is the instant at which the regeneration
\* that wrote it issued its puts, so it never decreases as long as the
\* metadata puts are applied in the order in which they were issued, as they
\* are when regenerations do not overlap.
C24_LastUpdatedMonotoneInIssueOrder ==
    [][( /\ MetaReplaced
         /\ writer[CACHE_META_KEY].id = 0
              \/ AtOrAfter(writer'[CACHE_META_KEY].at, writer[CACHE_META_KEY].at) )
        => /\ StoredLastUpdated(kv') = writer'[CACHE_META_KEY].at
           /\ AtOrAfter(StoredLastUpdated(kv'), StoredLastUpdated(kv))]_vars

\* C24 witness: the metadata put of a regeneration that saved at 22:00:00.000
\* was applied after that of one that saved at 21:59:59.999.
C24_Witness ==
    /\ writer[CACHE_META_KEY].at = Clock(1)
    /\ StoredLastUpdated(kv) = Clock(1)
    /\ \E i \in Isolates :
          /\ proc[i].id # writer[CACHE_META_KEY].id
          /\ proc[i].puts[CACHE_META_KEY] = "ok"
          /\ proc[i].savedAt = Clock(0)

\* The milliseconds from a to b, for instants a few days apart.
Elapsed(a, b) == (b.day - a.day) * msPerDay + (b.ms - a.ms)

\* C25: for every now, now - getLastScheduledTime(now) is at least 0 and
\* less than 12 hours; and whenever isCacheInValidPeriod(lastUpdated, now)
\* holds, so that the read path serves from the cache, lastUpdated is later
\* than now or less than 12 hours before it.
C25_StalenessBelowTwelveHours ==
    /\ oPc \in {"scheduled", "checked"} =>
          /\ Elapsed(oLast, oNow) >= 0
          /\ Elapsed(oLast, oNow) < 12 * msPerHour
    /\ oPc = "checked" /\ oFresh =>
          /\ ~oLastUpdated.nan
          /\ Elapsed(oLastUpdated, oNow) < 12 * msPerHour

\* C25 witness: at 21:59:59.999 a lastUpdated of 10:00:00.000 of the same
\* day, 12 hours less a millisecond before, was found fresh.
C25_Witness ==
    /\ oPc = "checked"
    /\ oFresh
    /\ oNow.ms = MakeTime(21, 59, 59, 999)
    /\ Elapsed(oLastUpdated, oNow) = 12 * msPerHour - 1
    /\ Elapsed(oLast, oNow) = 12 * msPerHour - 1

====
